---- MODULE Spec2Model ----
(***************************************************************************)
(* Model of src/Stability_Study_Form.py: the sample generator              *)
(* (create_sample_record, generate_stability_samples), the four Generate   *)
(* button handlers and clear_all, acting on st.session_state.samples.      *)
(*                                                                         *)
(* Python values that a field or an argument may hold are tagged tuples:   *)
(*   <<"int", n>>    the int n                                             *)
(*   <<"float", t>>  the float t/10 (number_input steps are 0.1 and 0.5)   *)
(*   <<"str", s>>    the str s                                             *)
(*   <<"none">>      None                                                  *)
(* Arguments that the code only ever uses as text (temperature labels,     *)
(* units, names) are plain strings; matrix cells are booleans. The         *)
(* temperature labels are written without their degree sign.              *)
(***************************************************************************)
EXTENDS Integers, Sequences, FiniteSets, TLC

VARIABLES samples, widgets, message, log, args, ret, pc

vars == <<samples, widgets, message, log, args, ret, pc>>

---------------------------------------------------------------------------
(* Bounds of the model *)

MaxTimes == 2
MaxTemps == 2
MaxActs == 2

---------------------------------------------------------------------------
(* Python values *)

PyInt(n) == <<"int", n>>
PyFloat(t) == <<"float", t>>
PyStr(s) == <<"str", s>>
PyNone == <<"none">>

\* bool(v): the truth value the code's `if v` / `if not v` tests
Truthy(v) ==
  CASE v[1] = "int" -> v[2] # 0
    [] v[1] = "float" -> v[2] # 0
    [] v[1] = "str" -> v[2] # ""
    [] OTHER -> FALSE

\* str(v) as an f-string renders it
PyFormat(v) ==
  CASE v[1] = "int" -> ToString(v[2])
    [] v[1] = "float" -> ToString(v[2] \div 10) \o "." \o ToString(v[2] % 10)
    [] v[1] = "str" -> v[2]
    [] OTHER -> "None"

\* The numerals int() can parse among the strings of the model
Numerals == 0..9

\* int(v): <<"ok", n>> or <<"raise", exception>>
PyIntOf(v) ==
  CASE v[1] = "int" -> <<"ok", v[2]>>
    [] v[1] = "float" -> <<"ok", v[2] \div 10>>
    [] v[1] = "str" ->
         IF \E n \in Numerals : ToString(n) = v[2]
           THEN <<"ok", CHOOSE n \in Numerals : ToString(n) = v[2]>>
           ELSE <<"raise", "ValueError">>
    [] OTHER -> <<"raise", "TypeError">>

---------------------------------------------------------------------------
(* Controlled vocabulary *)

VOCAB_transportation ==
  <<"Control", "Transport Rep 1", "Transport Rep 2", "Transport Rep 3">>

VOCAB_time_units == <<"week", "month", "year">>

---------------------------------------------------------------------------
(* create_sample_record *)

IsBlank(s) == s = "" \/ s = " "

RECURSIVE LStrip(_)
LStrip(ps) ==
  IF ps = <<>> THEN <<>>
  ELSE IF IsBlank(Head(ps)) THEN LStrip(Tail(ps)) ELSE ps

RECURSIVE RStrip(_)
RStrip(ps) ==
  IF ps = <<>> THEN <<>>
  ELSE IF IsBlank(ps[Len(ps)]) THEN RStrip(SubSeq(ps, 1, Len(ps) - 1)) ELSE ps

RECURSIVE Join(_)
Join(ps) == IF ps = <<>> THEN "" ELSE Head(ps) \o Join(Tail(ps))

\* f"...".strip() on the pieces of the f-string: the leading and trailing
\* blank pieces go (the strings of the model carry no blank at their ends).
Strip(ps) == Join(RStrip(LStrip(ps)))

create_sample_record(exp_id, molecule, source, formulation, parent, create_date, conc, label, micro_label, time_pt, time_unit, temp, temp_ds, vial_o, transport, freeze_thaw) ==
  LET description == Strip(<<molecule, " ", source, ", ", formulation, ", ",
                            PyFormat(conc), " mg/mL, ", micro_label, " ", vial_o>>)
      label_text == Strip(<<molecule, " ", source, ", ", formulation, ", ",
                           PyFormat(conc), " mg/mL, ", micro_label, " ", vial_o>>)
  IN  ("Parent" :> parent) @@
      ("Description" :> description) @@
      ("Label" :> label_text) @@
      ("Micro Label" :> micro_label) @@
      ("Sample Date" :> create_date) @@
      ("Time Point" :> time_pt) @@
      ("Time Point Units" :> time_unit) @@
      ("Conc. (mg/mL)" :> conc) @@
      ("Storage Temp" :> temp) @@
      ("DS Temperature" :> temp_ds) @@
      ("Formulation" :> formulation) @@
      ("Experiment Id" :> exp_id) @@
      ("Storage Vial Orientation Conditions" :> vial_o) @@
      ("Transportation" :> transport) @@
      ("Stability Freeze Thaw Count" :> freeze_thaw)

---------------------------------------------------------------------------
(* generate_stability_samples *)

\* The result of a call: the list it returns, or the exception it raises
\* (then nothing is returned).
Returned(ss) == [raised |-> FALSE, exc |-> "", samples |-> ss]
Raised(e) == [raised |-> TRUE, exc |-> e, samples |-> <<>>]

unit_suffix(time_unit) ==
  IF time_unit = "week" THEN "w"
  ELSE IF time_unit = "month" THEN "m"
  ELSE IF time_unit = "year" THEN "y"
  ELSE ""

t0_label(study_type) == IF study_type = "DP" THEN "t0" ELSE "t0, DS"

\* Variant: the unit of the last time point instead of the first
t0_time_unit_last(time_units) ==
  IF time_units # <<>> /\ time_units[Len(time_units)] # ""
    THEN time_units[Len(time_units)] ELSE ""

t0_time_unit(time_units) ==
  IF time_units # <<>> /\ time_units[1] # "" THEN time_units[1] ELSE ""

\* Variant: every in-bounds cell counts as marked
cell_marked_any(matrix, i, j) ==
  i <= Len(matrix) /\ j <= Len(matrix[i])

\* i < len(matrix) and j < len(matrix[i]) and matrix[i][j]    (i, j from 1 here)
cell_marked(matrix, i, j) ==
  i <= Len(matrix) /\ j <= Len(matrix[i]) /\ matrix[i][j]

time_micro_label(study_type, temp, time_pt, suffix) ==
  IF study_type = "DP"
    THEN temp \o ", " \o PyFormat(time_pt) \o suffix
    ELSE temp \o ", " \o PyFormat(time_pt) \o suffix \o " DS"

\* Variant: the storage temperature is written for every study type
temp_field_always(study_type, temp) == temp

temp_field(study_type, temp) == IF study_type = "DP" THEN temp ELSE ""

\* Variant: the DS temperature is never written
temp_ds_field_never(study_type, temp) == ""

temp_ds_field(study_type, temp) == IF study_type = "DS" THEN temp ELSE ""

vial_of(vial_orientations, j) ==
  IF j <= Len(vial_orientations) THEN vial_orientations[j] ELSE ""

extra_count_of(extra_vials, j) ==
  IF j <= Len(extra_vials) THEN extra_vials[j] ELSE PyInt(0)

\* Variant: the extra vials of a temperature are not numbered
extra_micro_label_unnumbered(temp, k) == temp \o ", extra"

extra_micro_label(temp, k) == temp \o ", extra" \o ToString(k)

\* Variant: one vial short
extra_range_short(n) == 1..(n - 1)

\* range(n) as the values k + 1 the loop body uses
extra_range(n) == 1..n

generate_stability_samples(exp_id, molecule, source, parent, create_date, conc, formulation, formulation_parent, formulation_conc, time_points, time_units, temperatures, vial_orientations, matrix, extra_vials, study_type) ==
  LET prnt == IF formulation_parent # "" THEN formulation_parent ELSE parent
      cnc == IF Truthy(formulation_conc) THEN formulation_conc ELSE conc
      \* T0 sample
      t0 == create_sample_record(
              exp_id, molecule, source, formulation, prnt, create_date, cnc,
              t0_label(study_type), t0_label(study_type), PyInt(0),
              t0_time_unit(time_units),
              "", "", "", "", "")
      \* Time point samples: the body of the inner loop for (i, j)
      time_sample(i, j) ==
        LET time_pt == time_points[i]
            time_unit == IF i <= Len(time_units) THEN time_units[i] ELSE ""
            temp == temperatures[j]
            micro_label ==
              time_micro_label(study_type, temp, time_pt, unit_suffix(time_unit))
        IN  create_sample_record(
              exp_id, molecule, source, formulation, prnt, create_date, cnc,
              micro_label, micro_label, time_pt, time_unit,
              temp_field(study_type, temp), temp_ds_field(study_type, temp),
              vial_of(vial_orientations, j), "", "")
      RECURSIVE temp_loop(_, _)
      temp_loop(i, j) ==
        IF j > Len(temperatures) THEN <<>>
        ELSE IF temperatures[j] = "" THEN temp_loop(i, j + 1)
        ELSE IF cell_marked(matrix, i, j)
          THEN <<time_sample(i, j)>> \o temp_loop(i, j + 1)
          ELSE temp_loop(i, j + 1)
      RECURSIVE time_loop(_)
      time_loop(i) ==
        IF i > Len(time_points) THEN <<>>
        ELSE IF ~Truthy(time_points[i]) THEN time_loop(i + 1)
        ELSE temp_loop(i, 1) \o time_loop(i + 1)
      \* Extra vials: the body of the inner loop for (j, k)
      extra_sample(j, k) ==
        LET temp == temperatures[j]
            micro_label == extra_micro_label(temp, k)
        IN  create_sample_record(
              exp_id, molecule, source, formulation, prnt, create_date, cnc,
              micro_label, micro_label, PyStr(""), "",
              temp_field(study_type, temp), temp_ds_field(study_type, temp),
              vial_of(vial_orientations, j), "", "")
      RECURSIVE vial_loop(_, _, _)
      vial_loop(j, k, n) ==
        IF k \notin extra_range(n) THEN <<>>
        ELSE <<extra_sample(j, k)>> \o vial_loop(j, k + 1, n)
      \* <<"ok", records>>, or <<"raise", exception>> out of int(extra_count)
      RECURSIVE extra_loop(_)
      extra_loop(j) ==
        IF j > Len(temperatures) THEN <<"ok", <<>>>>
        ELSE IF temperatures[j] = "" THEN extra_loop(j + 1)
        ELSE LET n == PyIntOf(extra_count_of(extra_vials, j))
             IN  IF n[1] = "raise" THEN n
                 ELSE LET rest == extra_loop(j + 1)
                      IN  IF rest[1] = "raise" THEN rest
                          ELSE <<"ok", vial_loop(j, 1, n[2]) \o rest[2]>>
      extras == extra_loop(1)
  IN  IF extras[1] = "raise" THEN Raised(extras[2])
      ELSE Returned(<<t0>> \o time_loop(1) \o extras[2])

---------------------------------------------------------------------------
(* Calls of generate_stability_samples on inputs drawn from bounded sets *)

RECURSIVE SeqsUpTo(_, _)
SeqsUpTo(S, n) ==
  IF n = 0 THEN {<<>>}
  ELSE LET shorter == SeqsUpTo(S, n - 1)
       IN  shorter \cup {Append(q, x) : q \in {r \in shorter : Len(r) = n - 1}, x \in S}

TimeValues == {PyInt(0), PyInt(1)}
UnitValues == {""} \cup {VOCAB_time_units[i] : i \in DOMAIN VOCAB_time_units}
TempValues == {"", "25C", "2-8C"}
ExtraValues == {PyInt(-1), PyInt(2), PyFloat(19), PyStr("3"), PyStr(""), PyNone}
StudyTypes == {"DP", "DS"}

CallArgs(formulation_parent, formulation_conc, time_points, time_units, temperatures, vial_orientations, matrix, extra_vials, study_type) ==
  [exp_id |-> "EXP1", molecule |-> "mAb1", source |-> "SrcA", parent |-> "P1",
   create_date |-> "2024-01-01", conc |-> PyFloat(1000), formulation |-> "F1",
   formulation_parent |-> formulation_parent, formulation_conc |-> formulation_conc,
   time_points |-> time_points, time_units |-> time_units,
   temperatures |-> temperatures, vial_orientations |-> vial_orientations,
   matrix |-> matrix, extra_vials |-> extra_vials, study_type |-> study_type]

\* Index-aligned inputs as the tabs build them: every time point list, every
\* list of vocabulary temperatures and every selection matrix of their shape
GridInputs(a) ==
  \E p \in 0..MaxTimes, t \in 0..MaxTemps :
    \E tp \in [1..p -> TimeValues], te \in [1..t -> TempValues \ {""}],
       mx \in [1..p -> [1..t -> BOOLEAN]], st \in StudyTypes :
      a = CallArgs("", PyNone, tp, [i \in 1..p |-> "week"], te, <<"upright">>, mx,
                   <<PyInt(1), PyInt(2)>>, st)

\* Matrices with missing and short rows against the time point and temperature lists
RaggedInputs(a) ==
  \E tp \in SeqsUpTo(TimeValues, MaxTimes),
     te \in SeqsUpTo(TempValues \ {""}, MaxTemps),
     mx \in SeqsUpTo(SeqsUpTo({TRUE}, MaxTemps), MaxTimes), st \in StudyTypes :
    a = CallArgs("", PyNone, tp, <<"month">>, te, <<>>, mx, <<>>, st)

\* Unit lists of every length against the time point list, every cell selected
UnitInputs(a) ==
  \E tp \in SeqsUpTo(TimeValues \cup {PyStr("")}, MaxTimes),
     tu \in SeqsUpTo(UnitValues, MaxTimes), st \in StudyTypes :
    a = CallArgs("", PyNone, tp, tu, <<"25C", "2-8C">>, <<"upright">>,
                 [i \in 1..MaxTimes |-> [j \in 1..MaxTemps |-> TRUE]],
                 <<PyInt(1), PyInt(2)>>, st)

\* Extra-vial counts of every kind and length against the temperature list
ExtraInputs(a) ==
  \E tp \in {<<>>, <<PyFloat(15)>>},
     te \in SeqsUpTo(TempValues, MaxTemps),
     vo \in {<<>>, <<"inverted", "">>},
     ev \in SeqsUpTo(ExtraValues, MaxTemps),
     st \in StudyTypes :
    a = CallArgs("", PyNone, tp, <<"year">>, te, vo, <<<<TRUE, TRUE>>>>, ev, st)

\* The formulation's parent and concentration overrides
OverrideInputs(a) ==
  \E fp \in {"", "P2"}, fc \in {PyNone, PyFloat(0), PyFloat(505), PyFloat(-50)},
     st \in StudyTypes :
    a = CallArgs(fp, fc, <<PyInt(1)>>, <<"week">>, <<"25C">>, <<"upright">>,
                 <<<<TRUE>>>>, <<PyInt(1)>>, st)

Call(a) ==
  generate_stability_samples(a.exp_id, a.molecule, a.source, a.parent, a.create_date,
                             a.conc, a.formulation, a.formulation_parent,
                             a.formulation_conc, a.time_points, a.time_units,
                             a.temperatures, a.vial_orientations, a.matrix,
                             a.extra_vials, a.study_type)

NoArgs == CallArgs("", PyNone, <<>>, <<>>, <<>>, <<>>, <<>>, <<>>, "DP")

InitGen ==
  /\ \/ GridInputs(args)
     \/ RaggedInputs(args)
     \/ UnitInputs(args)
     \/ ExtraInputs(args)
     \/ OverrideInputs(args)
  /\ ret = Returned(<<>>)
  /\ pc = "call"
  /\ samples = <<>>
  /\ widgets = [exp_id |-> "", molecule |-> "", source |-> "", parent |-> "",
                concentration |-> PyFloat(1000)]
  /\ message = ""
  /\ log = <<>>

\* The call: the inputs are applied and the outcome recorded
DoCall ==
  /\ pc = "call"
  /\ ret' = Call(args)
  /\ pc' = "done"
  /\ UNCHANGED <<args, samples, widgets, message, log>>

NextGen == DoCall

SpecGen == InitGen /\ [][NextGen]_vars

---------------------------------------------------------------------------
(* The session: the study information widgets, the four Generate buttons   *)
(* and the Clear button, acting on st.session_state.samples                *)

\* create_date.strftime("%Y-%m-%d") of the date widget, which always holds a date
create_date_text == "2024-01-01"

\* The values of the study information widgets before the user touches them
WidgetDefaults ==
  [exp_id |-> "", molecule |-> "", source |-> "", parent |-> "",
   concentration |-> PyFloat(1000)]

\* What the user may type into a study information widget
WidgetValues(field) ==
  CASE field = "exp_id" -> {"", "EXP1"}
    [] field = "molecule" -> {"", "mAb1"}
    [] field = "source" -> {"", "SrcA"}
    [] field = "parent" -> {"", "P1"}
    [] field = "concentration" -> {PyFloat(0), PyFloat(1000)}

\* not all([exp_id, molecule, source, parent])
required_missing(w) ==
  w.exp_id = "" \/ w.molecule = "" \/ w.source = "" \/ w.parent = ""

\* One row of formulation widgets: name, parent (optional), conc. (optional)
FormRow(form, form_parent, form_conc) ==
  [form |-> form, form_parent |-> form_parent, form_conc |-> form_conc]

\* The list a tab builds from its rows: rows without a name are left out and
\* a concentration that is not > 0 becomes None
RECURSIVE formulations(_)
formulations(rows) ==
  IF rows = <<>> THEN <<>>
  ELSE LET r == Head(rows)
       IN  (IF r.form # ""
              THEN <<[formulation |-> r.form, parent |-> r.form_parent,
                      concentration |-> IF r.form_conc[2] > 0 THEN r.form_conc ELSE PyNone]>>
              ELSE <<>>) \o formulations(Tail(rows))

\* The cycles a Freeze/Thaw tab selects: the cycle widgets whose Include box is ticked
RECURSIVE selected_cycles(_)
selected_cycles(cs) ==
  IF cs = <<>> THEN <<>>
  ELSE (IF Head(cs).include THEN <<Head(cs).cycle>> ELSE <<>>) \o selected_cycles(Tail(cs))

\* The surfactants of the Transportation tab: the non-empty surfactant widgets
surfactant_list(ws) == SelectSeq(ws, LAMBDA x : x # "")

\* Variant: records already in the list are not appended again
extend_new_only(list, items) ==
  list \o SelectSeq(items, LAMBDA r : \A n \in DOMAIN list : list[n] # r)

\* list.extend / repeated list.append on st.session_state.samples
extend(list, items) == list \o items

\* The records one Generate DP/DS click appends, formulation by formulation
RECURSIVE stability_batch(_, _, _, _)
stability_batch(w, forms, g, study_type) ==
  IF forms = <<>> THEN <<>>
  ELSE LET form_data == Head(forms)
           new == generate_stability_samples(
                    w.exp_id, w.molecule, w.source, w.parent, create_date_text,
                    w.concentration, form_data.formulation, form_data.parent,
                    form_data.concentration, g.times, g.units, g.temps,
                    IF study_type = "DP" THEN g.vials ELSE <<>>,
                    g.matrix, g.extras, study_type).samples
       IN  extend(new, stability_batch(w, Tail(forms), g, study_type))

\* Variant: the label without the cycle count
ft_micro_label_uncounted(cycle) == "X FT"

ft_micro_label(cycle) == ToString(cycle) \o "X FT"

\* The records one Generate F/T click appends
RECURSIVE ft_batch(_, _, _)
ft_batch(w, forms, cycles) ==
  IF forms = <<>> THEN <<>>
  ELSE LET form_data == Head(forms)
           prnt == IF form_data.parent # "" THEN form_data.parent ELSE w.parent
           cnc == IF Truthy(form_data.concentration)
                    THEN form_data.concentration ELSE w.concentration
           sample(c) ==
             create_sample_record(
               w.exp_id, w.molecule, w.source, form_data.formulation, prnt,
               create_date_text, cnc, ft_micro_label(cycles[c]), ft_micro_label(cycles[c]),
               PyStr(""), "", "", "", "", "", ToString(cycles[c]))
       IN  extend([c \in 1..Len(cycles) |-> sample(c)], ft_batch(w, Tail(forms), cycles))

micro_map(transport_label) ==
  CASE transport_label = "Control" -> "ctrl"
    [] transport_label = "Transport Rep 1" -> "trans1"
    [] transport_label = "Transport Rep 2" -> "trans2"
    [] transport_label = "Transport Rep 3" -> "trans3"

\* Variant: a blank between the base name and the surfactant
full_form_spaced(formulation, surf) == formulation \o " " \o surf

\* full_form = form_data['formulation'] + surf
full_form(formulation, surf) == formulation \o surf

\* The records one Generate Transportation click appends
RECURSIVE transport_batch(_, _, _)
transport_batch(w, forms, surfactants) ==
  IF forms = <<>> THEN <<>>
  ELSE LET form_data == Head(forms)
           prnt == IF form_data.parent # "" THEN form_data.parent ELSE w.parent
           cnc == IF Truthy(form_data.concentration)
                    THEN form_data.concentration ELSE w.concentration
           four(name) ==
             [t \in 1..Len(VOCAB_transportation) |->
                create_sample_record(
                  w.exp_id, w.molecule, w.source, name, prnt, create_date_text,
                  cnc, VOCAB_transportation[t], micro_map(VOCAB_transportation[t]),
                  PyStr(""), "", "", "", "", VOCAB_transportation[t], "")]
           RECURSIVE variants(_)
           variants(k) ==
             IF k > Len(surfactants) THEN <<>>
             ELSE four(full_form(form_data.formulation, surfactants[k]))
                    \o variants(k + 1)
       IN  extend(four(form_data.formulation) \o variants(1),
                  transport_batch(w, Tail(forms), surfactants))

\* The widget values of a tab the clicks are tried with
Blank == FormRow("", "", PyFloat(0))
RowsChoices ==
  {<<Blank>>,
   <<FormRow("F1", "", PyFloat(0)), Blank, FormRow("F2", "P2", PyFloat(505))>>}

GridChoices ==
  {[times |-> <<PyFloat(0), PyFloat(10)>>, units |-> <<"week", "month">>,
    temps |-> <<"2-8C", "25C">>, vials |-> <<"upright", "">>,
    matrix |-> <<<<TRUE, TRUE>>, <<TRUE, FALSE>>>>, extras |-> <<PyInt(0), PyInt(1)>>]}

CycleChoices ==
  {<<[cycle |-> 1, include |-> FALSE]>>,
   <<[cycle |-> 1, include |-> TRUE], [cycle |-> 2, include |-> FALSE],
     [cycle |-> 3, include |-> TRUE]>>}

SurfactantChoices == {<<>>, <<"", "PS80">>}

NoGrid == [times |-> <<>>, units |-> <<>>, temps |-> <<>>, vials |-> <<>>,
           matrix |-> <<>>, extras |-> <<>>]

\* A Generate click that ran: the button, the study information and the tab's inputs
Click(op, w, forms, g, cycles, surfactants) ==
  [op |-> op, w |-> w, forms |-> forms, grid |-> g, cycles |-> cycles,
   surfactants |-> surfactants]

Init ==
  /\ samples = <<>>
  /\ widgets = WidgetDefaults
  /\ message = ""
  /\ log = <<>>
  /\ args = NoArgs
  /\ ret = Returned(<<>>)
  /\ pc = "idle"

\* The user edits one study information widget
EditStudyInfo(field, value) ==
  /\ widgets[field] # value
  /\ widgets' = [widgets EXCEPT ![field] = value]
  /\ message' = ""
  /\ UNCHANGED <<samples, log, args, ret, pc>>

\* st.error(msg): the message stays on the page, nothing else changes
Blocked(msg) ==
  /\ message' = msg
  /\ UNCHANGED <<samples, widgets, log, args, ret, pc>>

\* The records are appended; st.success(msg) is wiped by the st.rerun() after it
Generated(msg, batch, click) ==
  /\ Len(log) < MaxActs
  /\ samples' = extend(samples, batch)
  /\ log' = Append(log, click)
  /\ message' = ""
  /\ UNCHANGED <<widgets, args, ret, pc>>

GenerateDPSamples(rows, g) ==
  LET dp_formulations == formulations(rows)
  IN  IF required_missing(widgets)
        THEN Blocked("Please fill in all required study information fields")
      ELSE IF dp_formulations = <<>>
        THEN Blocked("Please add at least one formulation")
      ELSE LET batch == stability_batch(widgets, dp_formulations, g, "DP")
           IN  Generated("Generated " \o ToString(Len(batch)) \o " DP samples!",
                         batch, Click("dp", widgets, dp_formulations, g, <<>>, <<>>))

GenerateDSSamples(rows, g) ==
  LET ds_formulations == formulations(rows)
  IN  IF required_missing(widgets)
        THEN Blocked("Please fill in all required study information fields")
      ELSE IF ds_formulations = <<>>
        THEN Blocked("Please add at least one DS formulation")
      ELSE Generated("Generated DS samples!",
                     stability_batch(widgets, ds_formulations, g, "DS"),
                     Click("ds", widgets, ds_formulations, g, <<>>, <<>>))

GenerateFTSamples(rows, cs) ==
  LET ft_formulations == formulations(rows)
      ft_cycles == selected_cycles(cs)
  IN  IF required_missing(widgets)
        THEN Blocked("Please fill in all required study information fields")
      ELSE IF ft_formulations = <<>> \/ ft_cycles = <<>>
        THEN Blocked("Please add formulations and cycles")
      ELSE Generated("Generated " \o ToString(Len(ft_formulations) * Len(ft_cycles))
                       \o " F/T samples!",
                     ft_batch(widgets, ft_formulations, ft_cycles),
                     Click("ft", widgets, ft_formulations, NoGrid, ft_cycles, <<>>))

GenerateTransportationSamples(rows, ws) ==
  LET tr_formulations == formulations(rows)
      surfactants == surfactant_list(ws)
  IN  IF required_missing(widgets)
        THEN Blocked("Please fill in all required study information fields")
      ELSE IF tr_formulations = <<>>
        THEN Blocked("Please add at least one formulation")
      ELSE Generated("Generated transportation samples!",
                     transport_batch(widgets, tr_formulations, surfactants),
                     Click("tr", widgets, tr_formulations, NoGrid, <<>>, surfactants))

\* The Clear All Data button: clear_all(), then the rerun rebuilds the widgets
clear_all ==
  /\ samples' = <<>>
  /\ widgets' = WidgetDefaults
  /\ log' = <<>>
  /\ message' = ""
  /\ UNCHANGED <<args, ret, pc>>

Next ==
  \/ \E field \in DOMAIN WidgetDefaults : \E value \in WidgetValues(field) :
       EditStudyInfo(field, value)
  \/ \E rows \in RowsChoices, g \in GridChoices : GenerateDPSamples(rows, g)
  \/ \E rows \in RowsChoices, g \in GridChoices : GenerateDSSamples(rows, g)
  \/ \E rows \in RowsChoices, cs \in CycleChoices : GenerateFTSamples(rows, cs)
  \/ \E rows \in RowsChoices, ws \in SurfactantChoices :
       GenerateTransportationSamples(rows, ws)
  \/ clear_all

Spec == Init /\ [][Next]_vars

---------------------------------------------------------------------------
(* Properties of one call of generate_stability_samples (under SpecGen) *)

Completed == pc = "done" /\ ~ret.raised

\* The field of a record that the call's study type writes temperatures to
StudyField(study_type) == IF study_type = "DP" THEN "Storage Temp" ELSE "DS Temperature"
OtherField(study_type) == IF study_type = "DP" THEN "DS Temperature" ELSE "Storage Temp"

IsT0(r) == r["Micro Label"] \in {"t0", "t0, DS"} \/ r["Time Point"] = PyInt(0)
IsExtra(r) == r["Time Point"] = PyStr("")
IsTimeSample(r) == ~IsT0(r) /\ ~IsExtra(r)

MatrixPart(ss) == SelectSeq(Tail(ss), IsTimeSample)
ExtraPart(ss) == SelectSeq(Tail(ss), IsExtra)

\* C1: the returned sequence holds exactly one T0 record, it comes first, its
\* micro-label is "t0" (DP) or "t0, DS" (DS), its time point is 0, its unit is
\* the first time unit when there is a non-empty one (else empty), and its
\* temperature, orientation, transportation and freeze/thaw fields are empty.
C1_T0First ==
  Completed =>
    LET ss == ret.samples
        first_unit == IF Len(args.time_units) >= 1 THEN args.time_units[1] ELSE ""
    IN  /\ Len(ss) >= 1
        /\ Cardinality({n \in DOMAIN ss : IsT0(ss[n])}) = 1
        /\ IsT0(ss[1])
        /\ args.study_type = "DP" => ss[1]["Micro Label"] = "t0"
        /\ args.study_type = "DS" => ss[1]["Micro Label"] = "t0, DS"
        /\ ss[1]["Time Point"] = PyInt(0)
        /\ ss[1]["Time Point Units"] = first_unit
        /\ ss[1]["Storage Temp"] = ""
        /\ ss[1]["DS Temperature"] = ""
        /\ ss[1]["Storage Vial Orientation Conditions"] = ""
        /\ ss[1]["Transportation"] = ""
        /\ ss[1]["Stability Freeze Thaw Count"] = ""

C1_Witness ==
  /\ Completed
  /\ args.study_type = "DS"
  /\ Len(args.time_units) = 2 /\ args.time_units[1] = "month"
  /\ Len(ret.samples) >= 4
  /\ ret.samples[1]["Micro Label"] = "t0, DS"

\* The pairs (i, j) in the order of the two loops
AllPairs(a) ==
  LET nT == Len(a.temperatures)
  IN  [k \in 1..(Len(a.time_points) * nT) |-> <<((k - 1) \div nT) + 1, ((k - 1) % nT) + 1>>]

InBoundsTrue(a, p) ==
  /\ p[1] <= Len(a.matrix)
  /\ p[2] <= Len(a.matrix[p[1]])
  /\ a.matrix[p[1]][p[2]]

Selected(a, p) ==
  /\ Truthy(a.time_points[p[1]])
  /\ a.temperatures[p[2]] # ""
  /\ InBoundsTrue(a, p)

\* C2: the matrix-expansion records are one per pair (i, j), in the order of
\* i and then j, with a non-zero time point, a non-empty temperature and a
\* true in-bounds cell; their number is the count of true in-bounds cells
\* minus those with a zero/empty time point or an empty temperature.
C2_MatrixExpansion ==
  Completed =>
    LET a == args
        Sel(p) == Selected(a, p)
        pairs == SelectSeq(AllPairs(a), Sel)
        recs == MatrixPart(ret.samples)
        cells == {p \in {AllPairs(a)[k] : k \in DOMAIN AllPairs(a)} : InBoundsTrue(a, p)}
        dropped == {p \in cells : ~Truthy(a.time_points[p[1]]) \/ a.temperatures[p[2]] = ""}
    IN  /\ Len(recs) = Len(pairs)
        /\ Len(recs) = Cardinality(cells) - Cardinality(dropped)
        /\ \A k \in DOMAIN recs :
             /\ recs[k]["Time Point"] = a.time_points[pairs[k][1]]
             /\ recs[k][StudyField(a.study_type)] = a.temperatures[pairs[k][2]]
             /\ ret.samples[k + 1] = recs[k]

C2_Witness ==
  /\ Completed
  /\ Len(MatrixPart(ret.samples)) = 3
  /\ Len(args.time_points) = 2 /\ Len(args.temperatures) = 2
  /\ Len(args.matrix[2]) = 1
  /\ args.temperatures[1] # args.temperatures[2]

Max0(n) == IF n > 0 THEN n ELSE 0

\* The count as a number: the extra-vial count coerced to an integer
CountValue(v) ==
  CASE v[1] = "int" -> v[2]
    [] v[1] = "float" -> v[2] \div 10
    [] v[1] = "str" -> CHOOSE n \in Numerals : ToString(n) = v[2]

RECURSIVE ExpectedExtras(_, _)
ExpectedExtras(a, j) ==
  IF j > Len(a.temperatures) THEN <<>>
  ELSE LET n == IF a.temperatures[j] = "" \/ j > Len(a.extra_vials) THEN 0
                ELSE Max0(CountValue(a.extra_vials[j]))
       IN  [k \in 1..n |-> <<j, k>>] \o ExpectedExtras(a, j + 1)

\* C3: the extra-vial records follow all matrix-expansion records; temperature
\* j with a non-empty label gives max(0, count[j]) of them (none when the count
\* is missing), labelled "{temperature}, extra{k}" for k = 1..count in
\* ascending order, with empty time point and unit.
C3_ExtraVials ==
  Completed =>
    LET a == args
        ss == ret.samples
        recs == ExtraPart(ss)
        want == ExpectedExtras(a, 1)
    IN  /\ Len(recs) = Len(want)
        /\ ss = <<ss[1]>> \o MatrixPart(ss) \o recs
        /\ \A n \in DOMAIN recs :
             /\ recs[n]["Micro Label"] =
                  a.temperatures[want[n][1]] \o ", extra" \o ToString(want[n][2])
             /\ recs[n]["Time Point"] = PyStr("")
             /\ recs[n]["Time Point Units"] = ""

C3_Witness ==
  /\ Completed
  /\ Len(args.temperatures) = 2
  /\ args.temperatures[1] = "2-8C" /\ args.temperatures[2] = "25C"
  /\ args.extra_vials = <<PyInt(2), PyInt(-1)>>
  /\ Len(MatrixPart(ret.samples)) = 2
  /\ Len(ExtraPart(ret.samples)) = 2
  /\ ret.samples[Len(ret.samples)]["Micro Label"] = "2-8C, extra2"

Populated(r, f) == r[f] # ""

\* C4 as stated: in every returned record, the T0 record included, exactly
\* one of Storage Temp and DS Temperature is populated, the one of the study type.
C4_ExactlyOneTempField ==
  Completed =>
    \A n \in DOMAIN ret.samples :
      /\ Populated(ret.samples[n], StudyField(args.study_type))
      /\ ~Populated(ret.samples[n], OtherField(args.study_type))

\* C4 amended: in every returned record other than the T0 record exactly one of
\* Storage Temp and DS Temperature is populated, the one of the study type
\* (Storage Temp for DP, DS Temperature for DS); in the T0 record both are empty.
C4_ExactlyOneTempFieldAfterT0 ==
  Completed =>
    /\ ~Populated(ret.samples[1], "Storage Temp")
    /\ ~Populated(ret.samples[1], "DS Temperature")
    /\ \A n \in 2..Len(ret.samples) :
         /\ Populated(ret.samples[n], "Storage Temp") = (args.study_type = "DP")
         /\ Populated(ret.samples[n], "DS Temperature") = (args.study_type = "DS")

C4_Witness ==
  /\ Completed
  /\ args.study_type = "DS"
  /\ Len(MatrixPart(ret.samples)) >= 1
  /\ Len(ExtraPart(ret.samples)) >= 1
  /\ Populated(ret.samples[2], "DS Temperature")

\* C5: a DP call leaves DS Temperature empty in every record and a DS call
\* leaves Storage Temp empty in every record; matrix-expansion and extra-vial
\* records carry their temperature label in the field of the study type.
C5_StudyTypeField ==
  Completed =>
    LET a == args
        Sel(p) == Selected(a, p)
        pairs == SelectSeq(AllPairs(a), Sel)
        mrecs == MatrixPart(ret.samples)
        xrecs == ExtraPart(ret.samples)
        want == ExpectedExtras(a, 1)
    IN  /\ \A n \in DOMAIN ret.samples : ret.samples[n][OtherField(a.study_type)] = ""
        /\ \A k \in DOMAIN mrecs :
             k <= Len(pairs) => mrecs[k][StudyField(a.study_type)] = a.temperatures[pairs[k][2]]
        /\ \A k \in DOMAIN xrecs :
             k <= Len(want) => xrecs[k][StudyField(a.study_type)] = a.temperatures[want[k][1]]

C5_Witness ==
  /\ Completed
  /\ args.study_type = "DP"
  /\ Len(MatrixPart(ret.samples)) >= 2
  /\ Len(ExtraPart(ret.samples)) >= 2
  /\ ret.samples[2]["Storage Temp"] = "25C"
  /\ ret.samples[Len(ret.samples)]["Storage Temp"] = "2-8C"

DistinctLabels(ss) ==
  \A m, n \in DOMAIN ss : m # n => ss[m]["Micro Label"] # ss[n]["Micro Label"]

\* C6 as stated: the micro-labels of one call's records are pairwise distinct,
\* whatever the input lists.
C6_DistinctMicroLabels == Completed => DistinctLabels(ret.samples)

IsNumber(v) == v[1] \in {"int", "float"}

DistinctInputs(a) ==
  /\ \A j1, j2 \in DOMAIN a.temperatures :
       (j1 # j2 /\ a.temperatures[j1] # "") => a.temperatures[j1] # a.temperatures[j2]
  /\ \A i \in DOMAIN a.time_points : Truthy(a.time_points[i]) => IsNumber(a.time_points[i])
  /\ \A i1, i2 \in DOMAIN a.time_points :
       (i1 # i2 /\ Truthy(a.time_points[i1]) /\ Truthy(a.time_points[i2])) =>
         \/ PyFormat(a.time_points[i1]) # PyFormat(a.time_points[i2])
         \/ unit_suffix(IF i1 <= Len(a.time_units) THEN a.time_units[i1] ELSE "")
              # unit_suffix(IF i2 <= Len(a.time_units) THEN a.time_units[i2] ELSE "")

\* C6 amended: the micro-labels of one call's records are pairwise distinct
\* when the non-empty temperature labels are pairwise distinct and the non-zero
\* time points are numbers with pairwise distinct (value as text, unit suffix).
C6_DistinctMicroLabelsForDistinctInputs ==
  (Completed /\ DistinctInputs(args)) => DistinctLabels(ret.samples)

C6_Witness ==
  /\ Completed
  /\ DistinctInputs(args)
  /\ Len(MatrixPart(ret.samples)) = 4
  /\ Len(ExtraPart(ret.samples)) = 3
  /\ args.time_points[1] = args.time_points[2]

\* C7: generate_stability_samples never raises, whatever its inputs.
C7_NeverRaises == pc = "done" => ~ret.raised

---------------------------------------------------------------------------
(* Properties of the session (under Spec) *)

\* A required study information field is absent: a text field is empty or the
\* default concentration is not positive (the date widget always holds a date)
RequiredAbsent(w) ==
  \/ w.exp_id = "" \/ w.molecule = "" \/ w.source = "" \/ w.parent = ""
  \/ ~(w.concentration[2] > 0)

\* C8: a Generate click made while a required study information field is
\* absent, or while the tab has no formulation (for Freeze/Thaw: no selected
\* cycle), is blocked: the accumulated samples are left unchanged.
C8_BlockedGenerate ==
  [][/\ \A rows \in RowsChoices, g \in GridChoices :
          ( /\ GenerateDPSamples(rows, g) \/ GenerateDSSamples(rows, g)
            /\ RequiredAbsent(widgets) \/ formulations(rows) = <<>> )
          => samples' = samples
     /\ \A rows \in RowsChoices, cs \in CycleChoices :
          ( /\ GenerateFTSamples(rows, cs)
            /\ \/ RequiredAbsent(widgets)
               \/ formulations(rows) = <<>>
               \/ selected_cycles(cs) = <<>> )
          => samples' = samples
     /\ \A rows \in RowsChoices, ws \in SurfactantChoices :
          ( /\ GenerateTransportationSamples(rows, ws)
            /\ RequiredAbsent(widgets) \/ formulations(rows) = <<>> )
          => samples' = samples
    ]_vars

\* The records a logged Generate click produced
BatchOf(e) ==
  CASE e.op = "dp" -> stability_batch(e.w, e.forms, e.grid, "DP")
    [] e.op = "ds" -> stability_batch(e.w, e.forms, e.grid, "DS")
    [] e.op = "ft" -> ft_batch(e.w, e.forms, e.cycles)
    [] e.op = "tr" -> transport_batch(e.w, e.forms, e.surfactants)

RECURSIVE Concatenation(_)
Concatenation(es) ==
  IF es = <<>> THEN <<>> ELSE BatchOf(Head(es)) \o Concatenation(Tail(es))

\* C9: the accumulated collection is the concatenation, in click order, of the
\* record sequences of the Generate clicks that ran since the last Clear (empty
\* at session start and right after a Clear); nothing is deduplicated.
C9_Accumulation ==
  /\ samples = Concatenation(log)
  /\ log = <<>> => samples = <<>>

C9_Witness ==
  /\ Len(log) = 2
  /\ log[1] = log[2]
  /\ log[1].op = "dp"
  /\ Len(samples) = 2 * Len(BatchOf(log[1]))
  /\ Len(samples) >= 8
  /\ \A n \in 1..Len(BatchOf(log[1])) : samples[n] = samples[n + Len(BatchOf(log[1]))]

\* C10: a Freeze/Thaw Generate click that runs appends |formulations| x
\* |selected cycles| records, formulation by formulation and cycle by cycle,
\* each labelled "{n}X FT" with freeze/thaw count n as text and with empty time
\* point, unit, temperatures, orientation and transportation.
C10_FreezeThaw ==
  [][\A rows \in RowsChoices, cs \in CycleChoices :
       (GenerateFTSamples(rows, cs) /\ log' # log) =>
         LET forms == formulations(rows)
             cycles == selected_cycles(cs)
             m == Len(cycles)
             n == Len(forms) * m
         IN  /\ Len(samples') = Len(samples) + n
             /\ SubSeq(samples', 1, Len(samples)) = samples
             /\ \A k \in 1..n :
                  LET r == samples'[Len(samples) + k]
                      c == cycles[((k - 1) % m) + 1]
                  IN  /\ r["Formulation"] = forms[((k - 1) \div m) + 1].formulation
                      /\ r["Micro Label"] = ToString(c) \o "X FT"
                      /\ r["Stability Freeze Thaw Count"] = ToString(c)
                      /\ r["Time Point"] = PyStr("")
                      /\ r["Time Point Units"] = ""
                      /\ r["Storage Temp"] = ""
                      /\ r["DS Temperature"] = ""
                      /\ r["Storage Vial Orientation Conditions"] = ""
                      /\ r["Transportation"] = ""
    ]_vars

C10_Witness ==
  /\ log # <<>>
  /\ log[Len(log)].op = "ft"
  /\ Len(log[Len(log)].forms) = 2 /\ Len(log[Len(log)].cycles) = 2
  /\ Len(samples) >= 4
  /\ samples[Len(samples)]["Micro Label"] = "3X FT"
  /\ samples[Len(samples)]["Formulation"] = "F2"
  /\ samples[Len(samples) - 3]["Micro Label"] = "1X FT"

\* C11: a Transportation Generate click that runs appends, formulation by
\* formulation, 4 x (1 + s) records for s specified surfactants: Control,
\* Transport Rep 1, 2, 3 (labelled ctrl, trans1, trans2, trans3) under the base
\* name, then the same four per surfactant under base name + surfactant name
\* with no separator; the transportation field holds the vocabulary entry and
\* the time point, temperature and orientation fields are empty.
C11_Transportation ==
  [][\A rows \in RowsChoices, ws \in SurfactantChoices :
       (GenerateTransportationSamples(rows, ws) /\ log' # log) =>
         LET forms == formulations(rows)
             surfs == SelectSeq(ws, LAMBDA x : x # "")
             entries == <<"Control", "Transport Rep 1", "Transport Rep 2", "Transport Rep 3">>
             micros == <<"ctrl", "trans1", "trans2", "trans3">>
             per == 4 * (1 + Len(surfs))
             n == Len(forms) * per
         IN  /\ Len(samples') = Len(samples) + n
             /\ SubSeq(samples', 1, Len(samples)) = samples
             /\ \A k \in 1..n :
                  LET r == samples'[Len(samples) + k]
                      base == forms[((k - 1) \div per) + 1].formulation
                      q == (k - 1) % per
                      v == q \div 4
                      t == (q % 4) + 1
                  IN  /\ r["Formulation"] = IF v = 0 THEN base ELSE base \o surfs[v]
                      /\ r["Transportation"] = entries[t]
                      /\ r["Micro Label"] = micros[t]
                      /\ r["Time Point"] = PyStr("")
                      /\ r["Time Point Units"] = ""
                      /\ r["Storage Temp"] = ""
                      /\ r["DS Temperature"] = ""
                      /\ r["Storage Vial Orientation Conditions"] = ""
    ]_vars

C11_Witness ==
  /\ Len(log) = 2
  /\ log[1].op = "tr" /\ log[1].surfactants = <<>> /\ Len(log[1].forms) = 2
  /\ log[2].op = "tr" /\ log[2].surfactants = <<"PS80">> /\ Len(log[2].forms) = 2
  /\ Len(samples) = 8 + 16
  /\ samples[5]["Formulation"] = "F2" /\ samples[5]["Micro Label"] = "ctrl"
  /\ samples[24]["Formulation"] = "F2PS80" /\ samples[24]["Micro Label"] = "trans3"

---------------------------------------------------------------------------
(* Parent and concentration of the records of one call (under SpecGen) *)

\* C12: every record of a call carries the same parent and concentration: the
\* formulation's parent override when it is non-empty, else the default parent;
\* the formulation's concentration override when it is present and > 0, else
\* the default concentration (an absent, zero or negative override falls back).
C12_Resolution ==
  Completed =>
    LET a == args
        want_parent == IF a.formulation_parent # "" THEN a.formulation_parent ELSE a.parent
        want_conc == IF a.formulation_conc[1] \in {"int", "float"} /\ a.formulation_conc[2] > 0
                       THEN a.formulation_conc ELSE a.conc
    IN  \A n \in DOMAIN ret.samples :
          /\ ret.samples[n]["Parent"] = want_parent
          /\ ret.samples[n]["Conc. (mg/mL)"] = want_conc

====
